---- MODULE Spec2Model ----
(***************************************************************************)
(* Model of scripts/fix_doc_backticks.py: the pure function fix_doc_line   *)
(* (three ordered re.sub passes over a '///' line) and the module-level    *)
(* loop that reads every Rust file, transforms it line by line, rewrites   *)
(* the files that changed and prints a report.                             *)
(*                                                                         *)
(* A string is a sequence of one-character strings.                        *)
(***************************************************************************)
EXTENDS Integers, Sequences, FiniteSets, TLC

VARIABLES
    \* ---- fix_doc_line, stepped rule by rule ----
    arg,            \* the argument `line` as passed in
    line,           \* the local `line`, reassigned by every re.sub
    lpc,            \* position inside fix_doc_line
    wrapped,        \* history: the group-2 tokens wrapped by the last re.sub
    \* ---- the module-level loop ----
    disk,           \* file path -> bytes on disk
    disk0,          \* history: the bytes on disk before the run
    linesep,        \* os.linesep of the platform
    fidx,           \* index into rust_files of the file being processed
    pc,             \* position inside the loop body
    lines,          \* `lines`  (f.readlines())
    new_lines,      \* `new_lines`
    file_changes,   \* `file_changes`
    total_changes,  \* `total_changes`
    nwritten,       \* number of elements of new_lines handed to the open file
    stdout,         \* the print() calls so far
    opened          \* history: the paths opened with mode 'w'

lvars == <<arg, line, lpc, wrapped>>
wvars == <<disk, disk0, linesep, fidx, pc, lines, new_lines, file_changes,
           total_changes, nwritten, stdout, opened>>
vars == <<arg, line, lpc, wrapped, disk, disk0, linesep, fidx, pc, lines,
          new_lines, file_changes, total_changes, nwritten, stdout, opened>>

----------------------------------------------------------------------------
(* Bounds *)

\* number of (separator, word) pairs in an argument of fix_doc_line
MaxWords == 2
\* number of (text, terminator) chunks in a file
MaxChunks == 2

----------------------------------------------------------------------------
(* Character classes of the three patterns *)

\* the backtick character (SANY rejects it inside a string literal)
TICK == "BACKTICK"
LF == "\n"
CR == "\r"

\* \s and str.lstrip(): the ASCII whitespace characters
WS == {" ", "\t", "\n", "\r", "\f"}

Lower == {"a","b","c","d","e","f","g","h","i","j","k","l","m",
          "n","o","p","q","r","s","t","u","v","w","x","y","z"}
Upper == {"A","B","C","D","E","F","G","H","I","J","K","L","M",
          "N","O","P","Q","R","S","T","U","V","W","X","Y","Z"}
Digit == {"0","1","2","3","4","5","6","7","8","9"}

\* [a-zA-Z_] and [a-zA-Z0-9_]   (pattern1)
IdStart == Lower \cup Upper \cup {"_"}
IdChar == Lower \cup Upper \cup Digit \cup {"_"}
\* [a-z_] and [a-z0-9_]         (pattern2)
SnakeStart == Lower \cup {"_"}
SnakeChar == Lower \cup Digit \cup {"_"}
\* [.,;)\]]                     (pattern2, right boundary)
Punct == {".", ",", ";", ")", "]"}
\* [a-zA-Z0-9]                  (pattern3)
AlNum == Lower \cup Upper \cup Digit

----------------------------------------------------------------------------
(* Strings *)

RECURSIVE Concat(_)
Concat(ss) == IF ss = <<>> THEN <<>> ELSE Head(ss) \o Concat(Tail(ss))

\* str.lstrip(): drop the leading whitespace
RECURSIVE LStrip(_)
LStrip(s) ==
    IF s # <<>> /\ Head(s) \in WS THEN LStrip(Tail(s)) ELSE s

\* Faulty variant of StartsWithMarker: two slashes are taken for the marker.
\* C2 does not survive it.
StartsWithMarkerM(s) ==
    Len(s) >= 2 /\ s[1] = "/" /\ s[2] = "/"

\* s.startswith('///')
StartsWithMarker(s) ==
    Len(s) >= 3 /\ s[1] = "/" /\ s[2] = "/" /\ s[3] = "/"

\* line 10: line.lstrip().startswith('///')
IsDocLine(s) == StartsWithMarker(LStrip(s))

\* The last index r >= k-1 such that s[k..r] lies in Class: where a greedy
\* Class* starting at k stops.
RECURSIVE RunEnd(_, _, _)
RunEnd(s, k, Class) ==
    IF k <= Len(s) /\ s[k] \in Class THEN RunEnd(s, k + 1, Class) ELSE k - 1

----------------------------------------------------------------------------
(* The three patterns.  PnEnd(s, i) is the index of the character matched  *)
(* by group 3 when the pattern matches with group 1 at index i, and 0 when *)
(* it does not match there.  In each pattern the character after the token *)
(* is outside the token's class, so the greedy quantifiers end the token   *)
(* at the end of the maximal run and backtracking finds no other match.    *)

\* (\s)([a-zA-Z_][a-zA-Z0-9_]*\(\))(\s)
P1End(s, i) ==
    IF s[i] \notin WS \/ i + 1 > Len(s) \/ s[i + 1] \notin IdStart THEN 0
    ELSE LET r == RunEnd(s, i + 2, IdChar)
         IN  IF /\ r + 3 <= Len(s)
                /\ s[r + 1] = "("
                /\ s[r + 2] = ")"
                /\ s[r + 3] \in WS
             THEN r + 3 ELSE 0

\* Faulty variant of P2End: the token is delimited by word boundaries (any
\* character outside [a-z0-9_]) instead of whitespace and punctuation.
\* C9 does not survive it.
P2EndM(s, i) ==
    IF s[i] \in SnakeChar \/ i + 1 > Len(s) \/ s[i + 1] \notin SnakeStart THEN 0
    ELSE LET r == RunEnd(s, i + 2, SnakeChar)
         IN  IF /\ r + 1 <= Len(s)
                /\ \E u \in (i + 2)..(r - 1) : s[u] = "_"
             THEN r + 1 ELSE 0

\* (\s)([a-z_][a-z0-9_]*_[a-z0-9_]+)(\s|[.,;)\]])
\* The literal '_' is an underscore of the run that is neither its first
\* character ([a-z_] takes that) nor its last ([a-z0-9_]+ needs one more).
P2End(s, i) ==
    IF s[i] \notin WS \/ i + 1 > Len(s) \/ s[i + 1] \notin SnakeStart THEN 0
    ELSE LET r == RunEnd(s, i + 2, SnakeChar)
         IN  IF /\ r + 1 <= Len(s)
                /\ s[r + 1] \in WS \cup Punct
                /\ \E u \in (i + 2)..(r - 1) : s[u] = "_"
             THEN r + 1 ELSE 0

\* (\s)([A-Z][a-zA-Z0-9]*[A-Z][a-zA-Z0-9]*)(\s)
P3End(s, i) ==
    IF s[i] \notin WS \/ i + 1 > Len(s) \/ s[i + 1] \notin Upper THEN 0
    ELSE LET r == RunEnd(s, i + 2, AlNum)
         IN  IF /\ r + 1 <= Len(s)
                /\ s[r + 1] \in WS
                /\ \E u \in (i + 2)..r : s[u] \in Upper
             THEN r + 1 ELSE 0

MatchEnd(rule, s, i) ==
    CASE rule = 1 -> P1End(s, i)
      [] rule = 2 -> P2End(s, i)
      [] rule = 3 -> P3End(s, i)

\* Faulty variant of Template: the template forgets group 3.
\* C3 does not survive it.
TemplateM(g1, g2, g3) == g1 \o <<TICK>> \o g2 \o <<TICK>>

\* the replacement template r'\1 BACKTICK \2 BACKTICK \3'
Template(g1, g2, g3) == g1 \o <<TICK>> \o g2 \o <<TICK>> \o g3

\* re.sub(pattern, template, s) from index pos on: the leftmost match is
\* replaced and the scan resumes after the last character it consumed.
RECURSIVE SubFrom(_, _, _)
SubFrom(rule, s, pos) ==
    IF pos > Len(s) THEN <<>>
    ELSE LET e == MatchEnd(rule, s, pos)
         IN  IF e = 0
             THEN <<s[pos]>> \o SubFrom(rule, s, pos + 1)
             ELSE Template(<<s[pos]>>, SubSeq(s, pos + 1, e - 1), <<s[e]>>)
                      \o SubFrom(rule, s, e + 1)

ReSub(rule, s) == SubFrom(rule, s, 1)

\* the group-2 texts of the matches re.sub replaces, in order
RECURSIVE TokensFrom(_, _, _)
TokensFrom(rule, s, pos) ==
    IF pos > Len(s) THEN <<>>
    ELSE LET e == MatchEnd(rule, s, pos)
         IN  IF e = 0
             THEN TokensFrom(rule, s, pos + 1)
             ELSE <<SubSeq(s, pos + 1, e - 1)>> \o TokensFrom(rule, s, e + 1)

\* fix_doc_line as a whole
fix_doc_line(s) ==
    IF ~IsDocLine(s) THEN s
    ELSE ReSub(3, ReSub(2, ReSub(1, s)))

----------------------------------------------------------------------------
(* fix_doc_line, one step per statement *)

\* the arguments: an indentation, a comment marker, up to MaxWords words each
\* after a separator, a trailing separator and a line terminator
Leads == {<<>>, <<" ">>}
Markers == {<<"/", "/", "/">>, <<"/", "/">>}
Seps == {<<" ">>, <<".">>, <<>>}
Words == {<<"f", "(", ")">>,
          <<"a", "_", "b">>,
          <<"a", "_", "b", "(", ")">>,
          <<"A", "B">>,
          <<"A", "b">>,
          <<"_", "_", "_">>,
          <<TICK, "a", "_", "b", TICK>>}
Ends == {<<>>, <<LF>>}

RECURSIVE Bodies(_)
Bodies(n) ==
    IF n = 0 THEN {<<>>}
    ELSE LET shorter == Bodies(n - 1)
         IN  shorter \cup {b \o s \o w : b \in shorter, s \in Seps, w \in Words}

ArgLines ==
    {l \o m \o b \o s \o e :
        l \in Leads, m \in Markers, b \in Bodies(MaxWords),
        s \in Seps, e \in Ends}

\* the state of the module-level loop while fix_doc_line is studied alone
WalkIdle ==
    /\ disk = <<>> /\ disk0 = <<>> /\ linesep = <<LF>> /\ fidx = 0
    /\ pc = "idle" /\ lines = <<>> /\ new_lines = <<>> /\ file_changes = 0
    /\ total_changes = 0 /\ nwritten = 0 /\ stdout = <<>> /\ opened = {}

LineInit ==
    /\ arg \in ArgLines
    /\ line = arg
    /\ lpc = "guard"
    /\ wrapped = <<>>
    /\ WalkIdle

\* lines 10-11
Guard ==
    /\ lpc = "guard"
    /\ lpc' = IF ~IsDocLine(line) THEN "done" ELSE "p1"
    /\ UNCHANGED <<arg, line, wrapped>>
    /\ UNCHANGED wvars

ApplyRule(rule, from, to) ==
    /\ lpc = from
    /\ line' = ReSub(rule, line)
    /\ wrapped' = TokensFrom(rule, line, 1)
    /\ lpc' = to
    /\ UNCHANGED arg
    /\ UNCHANGED wvars

\* lines 14-15
Rule1 == ApplyRule(1, "p1", "p2")
\* lines 19-20
Rule2 == ApplyRule(2, "p2", "p3")
\* lines 23-24, and the return of line 26
Rule3 == ApplyRule(3, "p3", "done")

LineNext == Guard \/ Rule1 \/ Rule2 \/ Rule3

SpecLine == LineInit /\ [][LineNext]_vars

----------------------------------------------------------------------------
(* Text-mode file I/O, newline=None (the default of open) *)

\* reading: '\r\n' and a lone '\r' are translated to '\n'
RECURSIVE Universal(_)
Universal(b) ==
    IF b = <<>> THEN <<>>
    ELSE IF Head(b) = CR
         THEN IF Len(b) >= 2 /\ b[2] = LF
              THEN <<LF>> \o Universal(Tail(Tail(b)))
              ELSE <<LF>> \o Universal(Tail(b))
         ELSE <<Head(b)>> \o Universal(Tail(b))

\* splitting the translated text after every '\n'; cur is the line being
\* collected
RECURSIVE SplitLines(_, _)
SplitLines(t, cur) ==
    IF t = <<>> THEN (IF cur = <<>> THEN <<>> ELSE <<cur>>)
    ELSE IF Head(t) = LF
         THEN <<Append(cur, LF)>> \o SplitLines(Tail(t), <<>>)
         ELSE SplitLines(Tail(t), Append(cur, Head(t)))

\* f.readlines() of a file opened with mode 'r'
ReadLines(b) == SplitLines(Universal(b), <<>>)

\* f.write(s) of a file opened with mode 'w': every '\n' becomes os.linesep
RECURSIVE Encode(_, _)
Encode(s, sep) ==
    IF s = <<>> THEN <<>>
    ELSE (IF Head(s) = LF THEN sep ELSE <<Head(s)>>) \o Encode(Tail(s), sep)

----------------------------------------------------------------------------
(* The module-level loop *)

\* glob.glob('src/**/*.rs', recursive=True)
rust_files == <<"a.rs", "b.rs">>

\* os.linesep on POSIX and on Windows
LineSeps == {<<LF>>, <<CR, LF>>}

\* the files before the run: up to MaxChunks chunks, each a text followed by
\* LF, CRLF or nothing
Texts == {<<"/", "/", "/", " ", "a", "_", "b">>}
Terms == {<<LF>>, <<CR, LF>>, <<>>}

RECURSIVE Contents(_)
Contents(n) ==
    IF n = 0 THEN {<<>>}
    ELSE LET shorter == Contents(n - 1)
         IN  shorter \cup {c \o t \o e : c \in shorter, t \in Texts, e \in Terms}

LineIdle ==
    /\ arg = <<>> /\ line = <<>> /\ lpc = "idle" /\ wrapped = <<>>

path == rust_files[fidx]

WalkInit ==
    /\ disk \in [1..Len(rust_files) -> Contents(MaxChunks)]
    /\ disk0 = disk
    /\ linesep \in LineSeps
    /\ fidx = 1
    /\ pc = "read"
    /\ lines = <<>>
    /\ new_lines = <<>>
    /\ file_changes = 0
    /\ total_changes = 0
    /\ nwritten = 0
    /\ stdout = <<>>
    /\ opened = {}
    /\ LineIdle

\* lines 32-37: the next file is read whole
ReadFile ==
    /\ pc = "read"
    /\ fidx <= Len(rust_files)
    /\ lines' = ReadLines(disk[fidx])
    /\ new_lines' = <<>>
    /\ file_changes' = 0
    /\ pc' = "loop"
    /\ UNCHANGED <<disk, disk0, linesep, fidx, total_changes, nwritten,
                   stdout, opened>>
    /\ UNCHANGED lvars

\* Faulty variant of LoopLine: the new line is put in front of new_lines.
\* C6 does not survive it.
LoopLineM ==
    /\ pc = "loop"
    /\ Len(new_lines) < Len(lines)
    /\ LET l == lines[Len(new_lines) + 1]
           new_line == fix_doc_line(l)
       IN  /\ file_changes' =
                  IF new_line # l THEN file_changes + 1 ELSE file_changes
           /\ new_lines' = <<new_line>> \o new_lines
    /\ UNCHANGED <<disk, disk0, linesep, fidx, pc, lines, total_changes,
                   nwritten, stdout, opened>>
    /\ UNCHANGED lvars

\* lines 38-42: one iteration of the loop over lines
LoopLine ==
    /\ pc = "loop"
    /\ Len(new_lines) < Len(lines)
    /\ LET l == lines[Len(new_lines) + 1]
           new_line == fix_doc_line(l)
       IN  /\ file_changes' =
                  IF new_line # l THEN file_changes + 1 ELSE file_changes
           /\ new_lines' = Append(new_lines, new_line)
    /\ UNCHANGED <<disk, disk0, linesep, fidx, pc, lines, total_changes,
                   nwritten, stdout, opened>>
    /\ UNCHANGED lvars

\* line 44 with file_changes = 0: on to the next file
SkipFile ==
    /\ pc = "loop"
    /\ Len(new_lines) = Len(lines)
    /\ ~(file_changes > 0)
    /\ fidx' = fidx + 1
    /\ pc' = "read"
    /\ UNCHANGED <<disk, disk0, linesep, lines, new_lines, file_changes,
                   total_changes, nwritten, stdout, opened>>
    /\ UNCHANGED lvars

\* Faulty variant of OpenWrite: the file is rewritten whatever file_changes.
\* C7 does not survive it.
OpenWriteM ==
    /\ pc = "loop"
    /\ Len(new_lines) = Len(lines)
    /\ disk' = [disk EXCEPT ![fidx] = <<>>]
    /\ opened' = opened \cup {path}
    /\ nwritten' = 0
    /\ pc' = "write"
    /\ UNCHANGED <<disk0, linesep, fidx, lines, new_lines, file_changes,
                   total_changes, stdout>>
    /\ UNCHANGED lvars

\* lines 44-45: open(file_path, 'w') truncates the file
OpenWrite ==
    /\ pc = "loop"
    /\ Len(new_lines) = Len(lines)
    /\ file_changes > 0
    /\ disk' = [disk EXCEPT ![fidx] = <<>>]
    /\ opened' = opened \cup {path}
    /\ nwritten' = 0
    /\ pc' = "write"
    /\ UNCHANGED <<disk0, linesep, fidx, lines, new_lines, file_changes,
                   total_changes, stdout>>
    /\ UNCHANGED lvars

\* line 46: writelines hands the lines to the file one after the other
WriteLine ==
    /\ pc = "write"
    /\ nwritten < Len(new_lines)
    /\ disk' = [disk EXCEPT
                   ![fidx] = @ \o Encode(new_lines[nwritten + 1], linesep)]
    /\ nwritten' = nwritten + 1
    /\ UNCHANGED <<disk0, linesep, fidx, pc, lines, new_lines, file_changes,
                   total_changes, stdout, opened>>
    /\ UNCHANGED lvars

\* line 46: the write raises OSError (disk full, I/O error) while the file
\* is open; nothing catches it and the run ends
WriteFails ==
    /\ pc = "write"
    /\ pc' = "failed"
    /\ UNCHANGED <<disk, disk0, linesep, fidx, lines, new_lines,
                   file_changes, total_changes, nwritten, stdout, opened>>
    /\ UNCHANGED lvars

\* the end of the with block of lines 45-46: the file is closed
CloseWrite ==
    /\ pc = "write"
    /\ nwritten = Len(new_lines)
    /\ pc' = "print"
    /\ UNCHANGED <<disk, disk0, linesep, fidx, lines, new_lines,
                   file_changes, total_changes, nwritten, stdout, opened>>
    /\ UNCHANGED lvars

\* Faulty variant of Report: the total counts files instead of lines.
\* C10 does not survive it.
ReportM ==
    /\ pc = "print"
    /\ stdout' = Append(stdout,
                        [kind |-> "file", file |-> path, n |-> file_changes])
    /\ total_changes' = total_changes + 1
    /\ fidx' = fidx + 1
    /\ pc' = "read"
    /\ UNCHANGED <<disk, disk0, linesep, lines, new_lines, file_changes,
                   nwritten, opened>>
    /\ UNCHANGED lvars

\* lines 47-48
Report ==
    /\ pc = "print"
    /\ stdout' = Append(stdout,
                        [kind |-> "file", file |-> path, n |-> file_changes])
    /\ total_changes' = total_changes + file_changes
    /\ fidx' = fidx + 1
    /\ pc' = "read"
    /\ UNCHANGED <<disk, disk0, linesep, lines, new_lines, file_changes,
                   nwritten, opened>>
    /\ UNCHANGED lvars

\* line 50
Summary ==
    /\ pc = "read"
    /\ fidx > Len(rust_files)
    /\ stdout' = Append(stdout,
                        [kind |-> "total", file |-> "", n |-> total_changes])
    /\ pc' = "done"
    /\ UNCHANGED <<disk, disk0, linesep, fidx, lines, new_lines,
                   file_changes, total_changes, nwritten, opened>>
    /\ UNCHANGED lvars

WalkNext ==
    \/ ReadFile \/ LoopLine \/ SkipFile \/ OpenWrite \/ WriteLine
    \/ WriteFails \/ CloseWrite \/ Report \/ Summary

SpecWalk == WalkInit /\ [][WalkNext]_vars

----------------------------------------------------------------------------
(* Vocabulary of the properties *)

\* out is inp with backticks inserted and nothing else changed; every
\* inserted backtick either opens a token (the character before it is
\* whitespace, the character after it is not) or closes one (the character
\* after it is whitespace or punctuation).  i and j are the next indices of
\* inp and out, open tells whether an inserted backtick awaits its partner.
RECURSIVE TicksAround(_, _, _, _, _)
TicksAround(inp, out, i, j, open) ==
    IF j > Len(out) THEN i > Len(inp) /\ ~open
    ELSE IF i <= Len(inp) /\ inp[i] = out[j]
         THEN TicksAround(inp, out, i + 1, j + 1, open)
         ELSE /\ out[j] = TICK
              /\ i > 1
              /\ i <= Len(inp)
              /\ IF open
                 THEN inp[i] \in WS \cup Punct /\ inp[i - 1] \notin WS
                 ELSE inp[i - 1] \in WS /\ inp[i] \notin WS \cup Punct
              /\ TicksAround(inp, out, i, j + 1, ~open)

BoundaryExact(inp, out) == TicksAround(inp, out, 1, 1, FALSE)

\* after its leading whitespace, s begins with three slashes
BeginsWithMarker(s) ==
    \E p \in 1..(Len(s) - 2) :
        /\ \A q \in 1..(p - 1) : s[q] \in WS
        /\ s[p] = "/" /\ s[p + 1] = "/" /\ s[p + 2] = "/"

\* the number of places where two backticks are adjacent
DoubleTicks(s) ==
    Cardinality({k \in 1..(Len(s) - 1) : s[k] = TICK /\ s[k + 1] = TICK})

\* a genuine snake_case token: lowercase letters, digits and underscores,
\* with an underscore between two alphanumeric characters
GenuineSnake(tok) ==
    /\ Len(tok) >= 3
    /\ tok[1] \in SnakeStart
    /\ \A k \in 1..Len(tok) : tok[k] \in SnakeChar
    /\ \E u \in 2..(Len(tok) - 1) :
           /\ tok[u] = "_"
           /\ tok[u - 1] \in Lower \cup Digit
           /\ tok[u + 1] \in Lower \cup Digit

\* the terminators of the lines of a file, in order; "none" for a last line
\* without one
RECURSIVE Terminators(_, _)
Terminators(b, pending) ==
    IF b = <<>> THEN (IF pending THEN <<"none">> ELSE <<>>)
    ELSE IF Head(b) = CR
         THEN IF Len(b) >= 2 /\ b[2] = LF
              THEN <<"CRLF">> \o Terminators(Tail(Tail(b)), FALSE)
              ELSE <<"CR">> \o Terminators(Tail(b), FALSE)
         ELSE IF Head(b) = LF
              THEN <<"LF">> \o Terminators(Tail(b), FALSE)
              ELSE Terminators(Tail(b), TRUE)

\* the lines of file f before the run, and what fix_doc_line makes of them
LinesBefore(f) == ReadLines(disk0[f])
LinesAfter(f) ==
    LET ls == LinesBefore(f)
    IN  [k \in 1..Len(ls) |-> fix_doc_line(ls[k])]
ChangedCount(f) ==
    LET ls == LinesBefore(f)
    IN  Cardinality({k \in 1..Len(ls) : fix_doc_line(ls[k]) # ls[k]})

\* the bytes of a sequence of lines written in text mode
FileBytes(ls) == Concat([k \in 1..Len(ls) |-> Encode(ls[k], linesep)])

\* the report lines of the changed files among the first n files
RECURSIVE ReportsUpTo(_)
ReportsUpTo(n) ==
    IF n = 0 THEN <<>>
    ELSE ReportsUpTo(n - 1) \o
         (IF ChangedCount(n) > 0
          THEN <<[kind |-> "file", file |-> rust_files[n],
                  n |-> ChangedCount(n)]>>
          ELSE <<>>)

RECURSIVE TotalUpTo(_)
TotalUpTo(n) == IF n = 0 THEN 0 ELSE TotalUpTo(n - 1) + ChangedCount(n)

----------------------------------------------------------------------------
(* Properties *)

\* C1: fix_doc_line is idempotent: applying it to its own result returns
\* that result unchanged, for every line.
C1_Idempotent ==
    lpc = "done" => fix_doc_line(line) = line

\* C2: a line that does not begin with '///' after its leading whitespace is
\* returned identical to the argument, and no substitution rule runs on it.
C2_NonDocInvariance ==
    ~BeginsWithMarker(arg) => /\ line = arg
                       /\ lpc \in {"guard", "done"}
                       /\ wrapped = <<>>

C2_Witness ==
    /\ lpc = "done"
    /\ ~BeginsWithMarker(arg)
    /\ TokensFrom(2, arg, 1) # <<>>
    /\ line = arg

\* C3: the result differs from the argument only by inserted backticks,
\* which come in pairs, the opening one right after a whitespace character
\* and before the token, the closing one right after the token and before
\* its whitespace or punctuation boundary; all other characters, the line
\* terminator included, keep their value and order.
C3_BoundaryExact ==
    /\ BoundaryExact(arg, line)
    /\ lpc \in {"p2", "p3", "done"} =>
           \A k \in 1..Len(wrapped) :
               \E p \in 2..Len(line) :
                   /\ line[p] = TICK
                   /\ line[p - 1] \in WS
                   /\ p + Len(wrapped[k]) + 2 <= Len(line)
                   /\ SubSeq(line, p + 1, p + Len(wrapped[k])) = wrapped[k]
                   /\ line[p + Len(wrapped[k]) + 1] = TICK
                   /\ line[p + Len(wrapped[k]) + 2] \in WS \cup Punct

C3_Witness ==
    /\ lpc = "done"
    /\ Len(line) >= Len(arg) + 4
    /\ line[Len(line)] = LF
    /\ line[Len(line) - 1] = TICK
    /\ BoundaryExact(arg, line)

\* C4: when a write fails part-way the file holds either its complete
\* original content or its complete transformed content.
C4_AllOrNothing ==
    pc = "failed" =>
        \/ disk[fidx] = disk0[fidx]
        \/ disk[fidx] = FileBytes(LinesAfter(fidx))

\* C5: a rewritten file has, line by line, the terminators (LF, CRLF, CR or
\* none) of the original file.
C5_TerminatorsKept ==
    pc = "print" =>
        Terminators(disk[fidx], FALSE) = Terminators(disk0[fidx], FALSE)

\* C6: the lines written back are as many as the lines read and the line at
\* each position is fix_doc_line of the line read at that position; no line
\* is added, removed, split, merged or reordered.
C6_LineCountOrder ==
    /\ pc \in {"loop", "write", "print"} =>
           /\ lines = LinesBefore(fidx)
           /\ Len(new_lines) <= Len(lines)
           /\ \A k \in 1..Len(new_lines) :
                  new_lines[k] = fix_doc_line(lines[k])
    /\ pc \in {"write", "print"} => Len(new_lines) = Len(lines)
    /\ pc = "print" =>
           /\ Len(ReadLines(disk[fidx])) = Len(lines)
           /\ \A k \in 1..Len(lines) :
                  ReadLines(disk[fidx])[k] = fix_doc_line(lines[k])

C6_Witness ==
    /\ pc = "print"
    /\ Len(lines) >= 2
    /\ file_changes < Len(lines)
    /\ ReadLines(disk[fidx]) = new_lines
    /\ new_lines # lines

\* C7: a file is opened for writing exactly when fix_doc_line changes one of
\* its lines; a file without a changed line keeps its bytes, a file with one
\* is overwritten with the whole transformed sequence of lines.
C7_WriteIffChanged ==
    \A f \in 1..Len(rust_files) :
        LET changed == ChangedCount(f) > 0
            isopen == rust_files[f] \in opened
        IN  /\ isopen => changed
            /\ ~isopen => disk[f] = disk0[f]
            /\ f < fidx =>
                   IF changed
                   THEN isopen /\ disk[f] = FileBytes(LinesAfter(f))
                   ELSE ~isopen

C7_Witness ==
    /\ pc = "done"
    /\ rust_files[1] \notin opened
    /\ disk[1] # <<>>
    /\ rust_files[2] \in opened
    /\ disk[2] # disk0[2]

\* C10: the output holds one report per changed file, with its path and its
\* number of changed lines, printed after the file is written, none for an
\* unchanged file, and after the last file one summary whose total is the
\* number of changed lines of all files.
C10_Reporting ==
    /\ stdout = ReportsUpTo(fidx - 1) \o
                (IF pc = "done"
                 THEN <<[kind |-> "total", file |-> "",
                         n |-> TotalUpTo(Len(rust_files))]>>
                 ELSE <<>>)
    /\ \A k \in 1..Len(stdout) :
           stdout[k].kind = "file" =>
               \E f \in 1..Len(rust_files) :
                   /\ rust_files[f] = stdout[k].file
                   /\ rust_files[f] \in opened
                   /\ disk[f] = FileBytes(LinesAfter(f))
    /\ pc = "done" => fidx = Len(rust_files) + 1

C10_Witness ==
    /\ pc = "done"
    /\ Len(stdout) = 3
    /\ stdout[1].n # stdout[2].n
    /\ stdout[3].n = stdout[1].n + stdout[2].n

\* C8: every token the snake_case rule wraps is a genuine snake_case token.
C8_GenuineSnake ==
    lpc = "p3" => \A k \in 1..Len(wrapped) : GenuineSnake(wrapped[k])

\* C9: fix_doc_line puts no second layer of backticks around a token: the
\* result has two adjacent backticks only where the argument had them.
C9_NoDoubleWrap ==
    /\ DoubleTicks(line) = DoubleTicks(arg)
    /\ \A k \in 1..(Len(line) - 1) :
           (line[k] = TICK /\ line[k + 1] = TICK) =>
               \E m \in 1..(Len(arg) - 1) :
                   /\ arg[m] = TICK /\ arg[m + 1] = TICK
                   /\ BoundaryExact(SubSeq(arg, 1, m), SubSeq(line, 1, k))

C9_Witness ==
    /\ lpc = "done"
    /\ line # arg
    /\ \E k \in 2..(Len(arg) - 1) :
           arg[k - 1] \in WS /\ arg[k] = TICK /\ arg[k + 1] = "a"
    /\ TokensFrom(1, arg, 1) # <<>>
    /\ \E k \in 1..Len(TokensFrom(1, arg, 1)) :
           "_" \in {TokensFrom(1, arg, 1)[k][m] :
                        m \in 1..Len(TokensFrom(1, arg, 1)[k])}

====
